---- MODULE Spec2Model ----
(***************************************************************************)
(* A model of the janus video room of angular-janus:                       *)
(*   - JanusVideoroomComponent: the room session driver (ngOnInit,         *)
(*     ngOnChanges, ngOnDestroy, the isMuted setter and the subscriber of  *)
(*     janusStore.state$ set up by setupJanusRoom);                        *)
(*   - VideoBoxComponent: the per-feed substream quality monitor           *)
(*     (monitorVideoQuality, switchSubstream).                             *)
(* JanusStore, JanusErrors and VideoQualityHelper are collaborators whose  *)
(* code is not part of the component file; they are modelled from the      *)
(* design document (sections 3, 4 and 6) and marked so below.              *)
(***************************************************************************)
EXTENDS Integers, Sequences, FiniteSets, TLC

\* --------------------------------------------------------------- constants

\* An unset (undefined) URL input: falsy in `this.wsUrl ? this.wsUrl : this.httpUrl`.
NoUrl == ""

\* The (wsUrl, httpUrl) pairs an application binds; at least one is set.
UrlConfigs ==
  { <<"wss", "https">>, <<NoUrl, "https">>, <<"wss", NoUrl>>, <<"https", "https">> }

IceLists == {1, 2}
FeedIds == {1, 2}
RemoteFeedState == {"pending", "ready", "closed"}
\* Feeds of the store: a map keyed by feed id (numeric keys).
FeedMaps == UNION { [D -> RemoteFeedState] : D \in SUBSET FeedIds }

\* The code of the fatal error emitted when no transport is left.
SentinelCode == 9999
\* Server error codes: one with an entry in JanusErrors, one without.
MappedCode == 426
UnmappedCode == 499
JanusErrorCodes == {MappedCode}
ServerCodes == {MappedCode, UnmappedCode}

RoomInfoState ==
  { "uninitialized", "initialized", "attaching", "attached", "attach_failed",
    "registered", "publishing", "error" }
PublishState == {"idle", "publishing", "error"}

\* The list of keys with the pin left out.
ResetKeysWithoutPin ==
  { "roomId", "wsUrl", "httpUrl", "iceServers", "role", "userName", "userId",
    "component" }

\* The keys ngOnChanges refreshes the session for, and the other inputs.
resetKeys ==
  { "roomId", "wsUrl", "httpUrl", "iceServers", "pin", "role", "userName",
    "userId", "component" }
OtherKeys == {"devices", "isMuted"}
\* The sets of changed inputs explored: each input alone, and one mixed set.
ChangeSets ==
  { {k} : k \in resetKeys \cup OtherKeys } \cup { {"devices", "pin"} }

\* ---------------------------------------------------------------- commands

Cmd(op, url, flag, n) == [op |-> op, url |-> url, flag |-> flag, n |-> n]
InitializeCmd(ice) == Cmd("initialize", NoUrl, FALSE, ice)
ResetCmd(ice) == Cmd("reset", NoUrl, FALSE, ice)
AttachCmd(url) == Cmd("attach", url, FALSE, 0)
RegisterCmd == Cmd("register", NoUrl, FALSE, 0)
SetMuteCmd(m) == Cmd("setMute", NoUrl, m, 0)

\* ------------------------------------------------------------------- state

VARIABLES
  \* JanusVideoroomComponent
  wsUrl, httpUrl, iceServers,          \* inputs
  muted,                               \* private muted: the desired mute flag
  janusServerUrl,                      \* private janusServerUrl
  phase,                               \* position in the component's lifecycle
  destroyed,                           \* ngOnDestroy has run
  subscribed,                          \* the state$ subscription is live
  timers,                              \* pending setTimeout callbacks of this session
  staleTimers,                         \* pending callbacks scheduled before a reset or destroy
  \* JanusStore
  roomInfo, remoteFeeds, cmds, attachUrl, registering,
  \* what the last step did (observations)
  delivered,                           \* the subscriber ran on (roomInfo', remoteFeeds')
  threw,                               \* the subscriber ended by a thrown TypeError
  issued,                              \* commands sent to the store, in order
  errs,                                \* codes of the janusError events emitted
  pubsOut,                             \* the publisher lists emitted
  scheduled,                           \* retry timers scheduled
  changed,                             \* the keys of the changes ngOnChanges was called with
  \* since the subscription or the last reset (history)
  lastSeen,                            \* roomInfo.state of the previous delivery
  lastPublish,                         \* roomInfo.publishState of the previous delivery
  retries,                             \* retry timers scheduled since the URL was last computed
  \* VideoBoxComponent (one remote feed's video box)
  remoteFeed,                          \* the remoteFeed input
  videoQualityHelper,                  \* the scorer's state
  boxPhase,                            \* position in the box's lifecycle
  tick,                                \* the timer task of interval(1000)
  storeFeed,                           \* the feed as the store holds it
  \* what the box's last step did (observations)
  evaluated,                           \* monitorVideoQuality ran past its guard
  pingsBefore,                         \* the scorer's healthy pings when it ran
  slowLinkSeen,                        \* ... with slowLink asserted
  errorAt,                             \* layers streamError was called with
  proposed,                            \* arguments of switchSubstream
  requestSubstream,                    \* substreamIds emitted on requestSubstream
  \* history of the box
  streak,                              \* healthy evaluations in a row at one layer
  streakLayer,                         \* the layer of that run
  sentSince                            \* targets requested since requestedSubstream changed

roomVars ==
  << wsUrl, httpUrl, iceServers, muted, janusServerUrl, phase, destroyed,
     subscribed, timers, staleTimers, roomInfo, remoteFeeds, cmds,
     attachUrl, registering, delivered, threw, issued, errs, pubsOut, scheduled, changed, lastSeen,
     lastPublish, retries >>

boxVars ==
  << remoteFeed, videoQualityHelper, boxPhase, tick, storeFeed, evaluated, pingsBefore,
     slowLinkSeen,
     errorAt, proposed, requestSubstream, streak, streakLayer, sentSince >>

vars == << roomVars, boxVars >>

\* The store's initial room: nothing attached, nothing published, not muted.
RoomInfo0 ==
  [state |-> "uninitialized", publishState |-> "idle", muted |-> FALSE, errorCode |-> 0]

\* The component as constructed, its inputs bound to a pair of `configs`.
InitRoom(configs) ==
  /\ \E c \in configs : wsUrl = c[1] /\ httpUrl = c[2]
  /\ iceServers = 1
  /\ muted = FALSE
  /\ janusServerUrl = NoUrl
  /\ phase = "constructed"
  /\ destroyed = FALSE
  /\ subscribed = FALSE
  /\ timers = 0
  /\ staleTimers = 0
  /\ roomInfo = RoomInfo0
  /\ remoteFeeds = << >>
  /\ cmds = << >>
  /\ attachUrl = NoUrl
  /\ registering = FALSE
  /\ delivered = FALSE
  /\ threw = FALSE
  /\ issued = << >>
  /\ errs = << >>
  /\ pubsOut = << >>
  /\ scheduled = 0
  /\ changed = {}
  /\ lastSeen = "none"
  /\ lastPublish = "none"
  /\ retries = 0

\* The layers of a feed: new VideoQualityHelper(3) scores layers 0..2.
MaxSubstreams == 3
\* Healthy pings in a row at a layer before the scorer proposes the next one.
HealthyPings == 3
\* The scorer's error counter is followed up to this count.
MaxErrors == 2

Layers == 0..(MaxSubstreams - 1)

\* No remoteFeed is bound yet: the input is undefined.
NoFeed == [currentSubstream |-> -1, requestedSubstream |-> -1, numVideoTracks |-> -1]

Feed(cur, req, tracks) ==
  [currentSubstream |-> cur, requestedSubstream |-> req, numVideoTracks |-> tracks]

\* A scorer that has scored nothing.
Helper0 == [layer |-> -1, healthy |-> 0, errors |-> 0]

\* The box as constructed, for a feed at one of `layers` with one of `tracks`.
InitBox(layers, tracks) ==
  /\ remoteFeed = NoFeed
  /\ \E cur \in layers, n \in tracks : storeFeed = Feed(cur, cur, n)
  /\ videoQualityHelper = Helper0
  /\ boxPhase = "constructed"
  /\ tick = "idle"
  /\ evaluated = FALSE
  /\ pingsBefore = 0
  /\ slowLinkSeen = FALSE
  /\ errorAt = << >>
  /\ proposed = << >>
  /\ requestSubstream = << >>
  /\ streak = 0
  /\ streakLayer = -1
  /\ sentSince = << >>

\* A room with every configuration, beside one box.
Init == InitRoom(UrlConfigs) /\ InitBox({0}, {1})

\* A box for every feed, beside one room.
InitMonitor == InitRoom({<< "wss", "https" >>}) /\ InitBox(Layers, {0, 1})


\* ------------------------------------------------- the state$ subscriber

\* Object.keys(remoteFeeds).map(id => remoteFeeds[id]): the keys are integer
\* like, so Object.keys lists them in ascending numeric order.
RECURSIVE KeysAscending(_)
KeysAscending(D) ==
  IF D = {} THEN << >>
  ELSE LET m == CHOOSE x \in D : \A y \in D : x <= y
       IN << m >> \o KeysAscending(D \ {m})

remoteFeedsArray(feeds) ==
  LET keys == KeysAscending(DOMAIN feeds)
  IN [i \in 1..Len(keys) |-> [id |-> keys[i], state |-> feeds[keys[i]]]]

\* The list is emitted without the filter on the feeds' state.
EmitEveryFeed(feedsArray) ==
  feedsArray

\* emitRemoteFeeds: remoteFeeds.filter(feed => feed.state === ready).
emitRemoteFeeds(feedsArray) ==
  SelectSeq(feedsArray, LAMBDA feed : feed.state = "ready")

\* The desired mute flag is applied whenever it differs from the room's.
MuteWheneverDiffers(ri) ==
  IF ri.muted # muted THEN << SetMuteCmd(muted) >> ELSE << >>

\* Lines 262-264: the desired mute flag is applied while publishing.
MuteReconciliation(ri) ==
  IF ri.muted # muted /\ ri.publishState = "publishing"
  THEN << SetMuteCmd(muted) >>
  ELSE << >>

\* Line 266: JanusErrors[code].message reads a property of undefined, and so
\* throws a TypeError, when the table has no entry for the code.
MessageLookupThrows(ri) ==
  ri.publishState = "error" /\ ri.errorCode \notin JanusErrorCodes

\* Lines 265-268: the fatal error event of a room in publishState error.
FatalErrorEvents(ri) ==
  IF ri.publishState = "error" THEN << ri.errorCode >> ELSE << >>

\* The fallback is tried after every failure, whatever URL was just used.
RetryWhateverUrl(ri) ==
  ri.state = "attach_failed"

\* Lines 287: the fallback is tried when the URL just used is not httpUrl.
RetryOnFallback(ri) ==
  ri.state = "attach_failed" /\ janusServerUrl # httpUrl

\* The sentinel error is emitted on the branch that retries.
SentinelOnRetry(ri) ==
  IF RetryOnFallback(ri) THEN << SentinelCode >> ELSE << >>

\* Lines 292-294: otherwise the sentinel error is emitted.
SentinelEvents(ri) ==
  IF ri.state = "attach_failed" /\ ~RetryOnFallback(ri)
  THEN << SentinelCode >>
  ELSE << >>

\* The switch registers again for a room in error.
StateDrivenCmdsRetryingError(ri) ==
  CASE ri.state = "initialized" -> << AttachCmd(janusServerUrl) >>
    [] ri.state \in {"attached", "error"} -> << RegisterCmd >>
    [] OTHER -> << >>

\* Lines 272-285: the commands of the switch on roomInfo.state.
StateDrivenCmds(ri) ==
  CASE ri.state = "initialized" -> << AttachCmd(janusServerUrl) >>
    [] ri.state = "attached" -> << RegisterCmd >>
    [] OTHER -> << >>

\* A step in which the subscriber does not run: it sends `pre` to the store.
Quiet(pre) ==
  /\ cmds' = pre
  /\ issued' = pre
  /\ delivered' = FALSE
  /\ threw' = FALSE
  /\ errs' = << >>
  /\ pubsOut' = << >>
  /\ scheduled' = 0

NoDelivery(pre) ==
  /\ changed' = {}
  /\ Quiet(pre)
  /\ UNCHANGED << janusServerUrl, timers, lastSeen, lastPublish, retries >>

\* The subscriber of state$ (lines 258-298) run on the pair (ri, feeds). `q`
\* holds the commands the store has still to take and `pre` the commands the
\* step made before the subscriber ran. A TypeError thrown at line 266 ends
\* the callback there; `keep` is whether the subscription survives it
\* (RxJS 7) or is closed by it (RxJS 6).
StateSubscriber(ri, feeds, q, pre, keep) ==
  LET thrown == MessageLookupThrows(ri)
      retry == ~thrown /\ RetryOnFallback(ri)
      sentinel == IF thrown THEN << >> ELSE SentinelEvents(ri)
      out == MuteReconciliation(ri) \o (IF thrown THEN << >> ELSE StateDrivenCmds(ri))
  IN /\ cmds' = q \o out
     /\ issued' = pre \o out
     /\ delivered' = TRUE
     /\ threw' = thrown
     /\ errs' = (IF thrown THEN << >> ELSE FatalErrorEvents(ri)) \o sentinel
     /\ pubsOut' = IF thrown THEN << >> ELSE << emitRemoteFeeds(remoteFeedsArray(feeds)) >>
     /\ scheduled' = IF retry THEN 1 ELSE 0
     /\ changed' = {}
     /\ janusServerUrl' = IF retry THEN httpUrl ELSE janusServerUrl
     /\ timers' = IF retry THEN timers + 1 ELSE timers
     /\ retries' = IF retry THEN retries + 1 ELSE retries
     /\ lastSeen' = ri.state
     /\ lastPublish' = ri.publishState
     /\ subscribed' = (~thrown \/ keep)

\* The store emits (ri, feeds) on state$: the subscriber runs if it is live.
Emit(ri, feeds, q) ==
  IF subscribed
  THEN \E keep \in BOOLEAN : StateSubscriber(ri, feeds, q, << >>, keep)
  ELSE NoDelivery(q) /\ UNCHANGED subscribed

inputs == << wsUrl, httpUrl, iceServers >>
store == << roomInfo, remoteFeeds, attachUrl, registering >>
lifecycle == << phase, destroyed >>

\* A command is taken by the store as it is sent, before anything else
\* happens: the other operations start with no command left over.
Idle == cmds = << >>

\* ------------------------------------------------ JanusVideoroomComponent

\* this.wsUrl ? this.wsUrl : this.httpUrl (lines 176 and 232).
PrimaryUrl(ws, http) == IF ws # NoUrl THEN ws ELSE http

\* ngOnChanges (lines 212-237): the session is reset when a reset key is
\* among the changes and it is not the first change of the input.
ResetNeeded(changes, firstChange) ==
  \E key \in resetKeys : key \in changes /\ ~firstChange

\* Angular's first ngOnChanges, before ngOnInit: every input is a first change.
NgOnChangesFirst ==
  /\ UNCHANGED boxVars
  /\ phase = "constructed"
  /\ \E changes \in ChangeSets :
       /\ ~ResetNeeded(changes, TRUE)
       /\ changed' = changes
  /\ phase' = "bound"
  /\ Quiet(<< >>)
  /\ UNCHANGED << janusServerUrl, timers, lastSeen, lastPublish, retries >>
  /\ UNCHANGED << inputs, store, muted, destroyed, subscribed, staleTimers >>

\* A later ngOnChanges: Angular has written the changed inputs.
NgOnChanges ==
  /\ UNCHANGED boxVars
  /\ Idle
  /\ phase \in {"awaiting", "running"}
  /\ ~destroyed
  /\ \E changes \in ChangeSets, c \in UrlConfigs, ice \in IceLists :
       /\ ("wsUrl" \in changes) = (c[1] # wsUrl)
       /\ ("httpUrl" \in changes) = (c[2] # httpUrl)
       /\ ("iceServers" \in changes) = (ice # iceServers)
       /\ wsUrl' = c[1]
       /\ httpUrl' = c[2]
       /\ iceServers' = ice
       /\ changed' = changes
       /\ IF ResetNeeded(changes, FALSE)
          THEN /\ janusServerUrl' = PrimaryUrl(c[1], c[2])
               /\ Quiet(<< ResetCmd(ice) >>)
               /\ retries' = 0
               /\ staleTimers' = staleTimers + timers
               /\ timers' = 0
               /\ UNCHANGED << lastSeen, lastPublish >>
          ELSE /\ Quiet(<< >>)
               /\ UNCHANGED << janusServerUrl, timers, lastSeen, lastPublish, retries,
                               staleTimers >>
  /\ UNCHANGED << store, muted, phase, destroyed, subscribed >>

\* The isMuted setter (lines 132-136) and _setMuted (lines 240-242).
SetIsMuted ==
  /\ UNCHANGED boxVars
  /\ Idle
  /\ phase # "constructed"
  /\ ~destroyed
  /\ \E m \in BOOLEAN :
       /\ m # muted
       /\ muted' = m
       /\ NoDelivery(<< SetMuteCmd(m) >>)
  /\ UNCHANGED << inputs, store, lifecycle, subscribed, staleTimers >>

\* ngOnInit up to its first await (lines 173-200).
NgOnInit ==
  /\ UNCHANGED boxVars
  /\ changed' = {}
  /\ Idle
  /\ phase = "bound"
  /\ phase' = "awaiting"
  /\ janusServerUrl' = PrimaryUrl(wsUrl, httpUrl)
  /\ Quiet(<< >>)
  /\ retries' = 0
  /\ UNCHANGED << inputs, store, muted, destroyed, subscribed, timers, staleTimers,
                  lastSeen, lastPublish >>

\* uninitialized --initialize(iceServers)--> initialized
AfterInitialize(ri) ==
  IF ri.state = "uninitialized" THEN [ri EXCEPT !.state = "initialized"] ELSE ri

\* The awaits of ngOnInit resolve and setupJanusRoom runs (lines 202-204 and
\* 251-258): initialize, then the subscription to state$, which replays the
\* store's current state. takeUntil(destroy$) ends the subscription only on
\* a later destroy$.next(): a destroy$ that has already completed ends nothing.
setupJanusRoom ==
  /\ UNCHANGED boxVars
  /\ Idle
  /\ phase = "awaiting"
  /\ phase' = "running"
  /\ roomInfo' = AfterInitialize(roomInfo)
  /\ \E keep \in BOOLEAN :
       StateSubscriber(roomInfo', remoteFeeds, << >>, << InitializeCmd(iceServers) >>, keep)
  /\ UNCHANGED << inputs, remoteFeeds, attachUrl, registering, muted, destroyed,
                  staleTimers >>

\* ngOnDestroy (lines 207-210): destroy$.next() ends a live subscription.
NgOnDestroy ==
  /\ UNCHANGED boxVars
  /\ changed' = {}
  /\ Idle
  /\ phase \in {"awaiting", "running"}
  /\ ~destroyed
  /\ destroyed' = TRUE
  /\ subscribed' = FALSE
  /\ staleTimers' = staleTimers + timers
  /\ timers' = 0
  /\ Quiet(<< >>)
  /\ UNCHANGED << inputs, store, muted, janusServerUrl, phase, lastSeen,
                  lastPublish, retries >>

\* The callback of setTimeout (lines 289-291) runs: it reads janusServerUrl
\* when it runs. Nothing clears the timer, so it runs after a reset or a
\* destroy too.
RetryTimerFires ==
  /\ UNCHANGED boxVars
  /\ changed' = {}
  /\ Idle
  /\ timers > 0
  /\ timers' = timers - 1
  /\ Quiet(<< AttachCmd(janusServerUrl) >>)
  /\ UNCHANGED << inputs, store, muted, janusServerUrl, lifecycle, subscribed,
                  staleTimers, lastSeen, lastPublish, retries >>

StaleTimerFires ==
  /\ UNCHANGED boxVars
  /\ changed' = {}
  /\ Idle
  /\ staleTimers > 0
  /\ staleTimers' = staleTimers - 1
  /\ Quiet(<< AttachCmd(janusServerUrl) >>)
  /\ UNCHANGED << inputs, store, muted, janusServerUrl, lifecycle, subscribed,
                  timers, lastSeen, lastPublish, retries >>

\* ------------------------------------------------------------- JanusStore
\* Every change of the store's state is emitted on state$.

NextCmd(op) == cmds # << >> /\ Head(cmds).op = op

\* States in which the store acts on a command (section 4.1 of the design).
Accepts(cmd, state) ==
  CASE cmd.op = "initialize" -> state = "uninitialized"
    [] cmd.op = "attach" -> state \in {"initialized", "attach_failed"}
    [] cmd.op = "register" -> state = "attached"
    [] OTHER -> TRUE

FeedsAfter(feeds, id, st) ==
  [i \in DOMAIN feeds \cup {id} |-> IF i = id THEN st ELSE feeds[i]]

FeedsWithout(feeds, id) ==
  IF DOMAIN feeds = {id} THEN << >>
  ELSE [i \in DOMAIN feeds \ {id} |-> feeds[i]]

\* The server's events are followed while the component can still see them:
\* it is subscribed to state$, or will be.
Observed ==
  \/ subscribed
  \/ phase \in {"constructed", "bound", "awaiting"}

StoreStep == UNCHANGED << inputs, muted, lifecycle, staleTimers, boxVars >>

ServerEvent == Idle /\ Observed

\* reset: back to uninitialized, the feeds and the mute flag discarded.
StoreReset ==
  /\ NextCmd("reset")
  /\ roomInfo' = RoomInfo0
  /\ remoteFeeds' = << >>
  /\ attachUrl' = NoUrl
  /\ registering' = FALSE
  /\ Emit(roomInfo', remoteFeeds', Tail(cmds))
  /\ StoreStep

\* initialized --attach(serverUrl)--> attaching, and the retry from attach_failed
StoreAttach ==
  /\ NextCmd("attach") /\ Accepts(Head(cmds), roomInfo.state)
  /\ roomInfo' = [roomInfo EXCEPT !.state = "attaching"]
  /\ attachUrl' = Head(cmds).url
  /\ UNCHANGED << remoteFeeds, registering >>
  /\ Emit(roomInfo', remoteFeeds', Tail(cmds))
  /\ StoreStep

\* attaching --success--> attached
AttachSucceeds ==
  /\ ServerEvent
  /\ roomInfo.state = "attaching"
  /\ roomInfo' = [roomInfo EXCEPT !.state = "attached"]
  /\ UNCHANGED << remoteFeeds, attachUrl, registering >>
  /\ Emit(roomInfo', remoteFeeds', cmds)
  /\ StoreStep

\* attaching --failure--> attach_failed
AttachFails ==
  /\ ServerEvent
  /\ roomInfo.state = "attaching"
  /\ roomInfo' = [roomInfo EXCEPT !.state = "attach_failed"]
  /\ UNCHANGED << remoteFeeds, attachUrl, registering >>
  /\ Emit(roomInfo', remoteFeeds', cmds)
  /\ StoreStep

\* register(profile): the request goes to the server; the room's state waits
\* for the answer.
StoreRegister ==
  /\ NextCmd("register") /\ Accepts(Head(cmds), roomInfo.state)
  /\ registering' = TRUE
  /\ NoDelivery(Tail(cmds))
  /\ UNCHANGED << roomInfo, remoteFeeds, attachUrl, subscribed >>
  /\ StoreStep

\* attached --register(name, userId, roomId, pin)--> registered
RegisterSucceeds ==
  /\ ServerEvent
  /\ roomInfo.state = "attached" /\ registering
  /\ roomInfo' = [roomInfo EXCEPT !.state = "registered"]
  /\ registering' = FALSE
  /\ UNCHANGED << remoteFeeds, attachUrl >>
  /\ Emit(roomInfo', remoteFeeds', cmds)
  /\ StoreStep

\* registered --own feed published--> publishing
PublishOwnFeed ==
  /\ ServerEvent
  /\ roomInfo.state = "registered"
  /\ roomInfo' = [roomInfo EXCEPT !.state = "publishing", !.publishState = "publishing"]
  /\ UNCHANGED << remoteFeeds, attachUrl, registering >>
  /\ Emit(roomInfo', remoteFeeds', cmds)
  /\ StoreStep

\* A signaling rejection (of the registration or of the publication): error,
\* with the server's error code.
SignalingRejected ==
  /\ ServerEvent
  /\ \/ roomInfo.state = "attached" /\ registering
     \/ roomInfo.state \in {"registered", "publishing"}
  /\ \E code \in ServerCodes :
       roomInfo' = [roomInfo EXCEPT !.state = "error", !.publishState = "error",
                                    !.errorCode = code]
  /\ registering' = FALSE
  /\ UNCHANGED << remoteFeeds, attachUrl >>
  /\ Emit(roomInfo', remoteFeeds', cmds)
  /\ StoreStep

\* setMute(bool): the room's mute flag follows the command.
StoreSetMute ==
  /\ NextCmd("setMute")
  /\ roomInfo' = [roomInfo EXCEPT !.muted = Head(cmds).flag]
  /\ UNCHANGED << remoteFeeds, attachUrl, registering >>
  /\ Emit(roomInfo', remoteFeeds', Tail(cmds))
  /\ StoreStep

\* A command the room's state does not accept is dropped; nothing is emitted.
StoreDiscards ==
  /\ cmds # << >>
  /\ ~Accepts(Head(cmds), roomInfo.state)
  /\ NoDelivery(Tail(cmds))
  /\ UNCHANGED << store, subscribed >>
  /\ StoreStep

\* setMute is fire and forget: with no own feed published there may be no
\* stream to mute, and the command may then leave the room's flag as it was.
StoreDropsMute ==
  /\ NextCmd("setMute")
  /\ roomInfo.publishState # "publishing"
  /\ NoDelivery(Tail(cmds))
  /\ UNCHANGED << store, subscribed >>
  /\ StoreStep

\* feed-ready, feed-state-update: last write wins for a feed id.
FeedUpsert ==
  /\ ServerEvent
  /\ roomInfo.state \in {"registered", "publishing", "error"}
  /\ \E id \in FeedIds, st \in RemoteFeedState :
       /\ id \in DOMAIN remoteFeeds => remoteFeeds[id] # st
       /\ remoteFeeds' = FeedsAfter(remoteFeeds, id, st)
  /\ UNCHANGED << roomInfo, attachUrl, registering >>
  /\ Emit(roomInfo', remoteFeeds', cmds)
  /\ StoreStep

\* feed-closed(feedId): the feed leaves the registry.
FeedRemove ==
  /\ ServerEvent
  /\ roomInfo.state \in {"registered", "publishing", "error"}
  /\ \E id \in DOMAIN remoteFeeds : remoteFeeds' = FeedsWithout(remoteFeeds, id)
  /\ UNCHANGED << roomInfo, attachUrl, registering >>
  /\ Emit(roomInfo', remoteFeeds', cmds)
  /\ StoreStep

NextRoom ==
  \/ NgOnChangesFirst
  \/ NgOnChanges
  \/ SetIsMuted
  \/ NgOnInit
  \/ setupJanusRoom
  \/ NgOnDestroy
  \/ RetryTimerFires
  \/ StaleTimerFires
  \/ StoreReset
  \/ StoreAttach
  \/ AttachSucceeds
  \/ AttachFails
  \/ StoreRegister
  \/ RegisterSucceeds
  \/ PublishOwnFeed
  \/ SignalingRejected
  \/ StoreSetMute
  \/ StoreDiscards
  \/ StoreDropsMute
  \/ FeedUpsert
  \/ FeedRemove

\* ------------------------------------------------------ VideoQualityHelper
\* The scorer of one feed: a counter of the healthy pings in a row at the
\* layer being scored, and a counter of stream errors.

\* ping(layer): a healthy ping at the layer. The count is followed up to
\* HealthyPings: beyond it the scorer's answer no longer changes.
HelperAfterPing(h, layer) ==
  [h EXCEPT !.layer = layer,
            !.healthy = IF h.layer # layer THEN 1
                        ELSE IF h.healthy < HealthyPings THEN h.healthy + 1
                        ELSE h.healthy]

\* The candidate ping returns: the next layer once enough healthy pings have
\* accumulated at this one, never above the highest layer.
PingCandidate(h, layer) ==
  IF HelperAfterPing(h, layer).healthy >= HealthyPings /\ layer < MaxSubstreams - 1
  THEN layer + 1
  ELSE layer

\* streamError(layer): an error at the layer ends the run of healthy pings.
HelperAfterError(h, layer) ==
  [h EXCEPT !.layer = layer, !.healthy = 0,
            !.errors = IF h.errors < MaxErrors THEN h.errors + 1 ELSE h.errors]

\* streamEnd(layer): the scoring of the layer is closed.
HelperAfterEnd(h, layer) == [h EXCEPT !.healthy = 0]

\* ------------------------------------------------------ VideoBoxComponent

\* The unhealthy branch is taken for a feed without video tracks only.
UnhealthyWithoutTracksOnly(feed, slowLink) == feed.numVideoTracks = 0

\* Line 549: the unhealthy branch of monitorVideoQuality.
Unhealthy(feed, slowLink) == feed.numVideoTracks = 0 \/ slowLink

\* The step down and the step up are both proposed, each on its own test.
ProposalsOnBothTests(feed, h, slowLink) ==
  LET currentSubstream == feed.currentSubstream
      newSubstream == PingCandidate(h, currentSubstream)
  IN (IF currentSubstream > 0 THEN << currentSubstream - 1 >> ELSE << >>)
     \o (IF newSubstream > currentSubstream THEN << newSubstream >> ELSE << >>)

\* Lines 548-560: the arguments monitorVideoQuality calls switchSubstream with.
Proposals(feed, h, slowLink) ==
  LET currentSubstream == feed.currentSubstream
      newSubstream == PingCandidate(h, currentSubstream)
  IN IF Unhealthy(feed, slowLink)
     THEN IF currentSubstream > 0 THEN << currentSubstream - 1 >> ELSE << >>
     ELSE IF newSubstream > currentSubstream THEN << newSubstream >> ELSE << >>

\* The scorer is not told of the stream error of an unhealthy evaluation.
HelperNotToldOfError(feed, h, slowLink) ==
  LET currentSubstream == feed.currentSubstream
  IN IF Unhealthy(feed, slowLink)
     THEN h
     ELSE IF PingCandidate(h, currentSubstream) > currentSubstream
          THEN HelperAfterEnd(HelperAfterPing(h, currentSubstream), currentSubstream)
          ELSE HelperAfterPing(h, currentSubstream)

\* Lines 550 and 555-557: what monitorVideoQuality does to the scorer.
HelperAfterMonitor(feed, h, slowLink) ==
  LET currentSubstream == feed.currentSubstream
  IN IF Unhealthy(feed, slowLink)
     THEN HelperAfterError(h, currentSubstream)
     ELSE IF PingCandidate(h, currentSubstream) > currentSubstream
          THEN HelperAfterEnd(HelperAfterPing(h, currentSubstream), currentSubstream)
          ELSE HelperAfterPing(h, currentSubstream)

\* The request is emitted whatever substream the feed has requested.
SwitchUnguarded(feed, substreamId) ==
  << substreamId >>

\* switchSubstream (lines 563-569): the request is emitted unless the feed's
\* requested substream is that one already.
switchSubstream(feed, substreamId) ==
  IF feed.requestedSubstream # substreamId THEN << substreamId >> ELSE << >>

RECURSIVE Switches(_, _)
Switches(feed, ids) ==
  IF ids = << >> THEN << >>
  ELSE switchSubstream(feed, Head(ids)) \o Switches(feed, Tail(ids))

\* onRequestSubstream -> janusStore.requestSubstream: the store records the
\* last substream requested for the feed.
StoreFeedAfter(feed, requests) ==
  IF requests = << >> THEN feed
  ELSE [feed EXCEPT !.requestedSubstream = requests[Len(requests)]]

\* The box does nothing observable in this step.
BoxQuiet ==
  /\ evaluated' = FALSE
  /\ pingsBefore' = 0
  /\ slowLinkSeen' = FALSE
  /\ errorAt' = << >>
  /\ proposed' = << >>
  /\ requestSubstream' = << >>

\* monitorVideoQuality(slowLink) (lines 540-561) on the feed `feed`, which
\* the step has put in remoteFeed'; `reqChanged` is whether the step changed
\* remoteFeed.requestedSubstream.
monitorVideoQuality(feed, slowLink, reqChanged) ==
  IF feed = NoFeed
  THEN /\ BoxQuiet
       /\ UNCHANGED << videoQualityHelper, streak, streakLayer, sentSince >>
  ELSE LET healthy == ~Unhealthy(feed, slowLink)
           sent == Switches(feed, Proposals(feed, videoQualityHelper, slowLink))
       IN /\ evaluated' = TRUE
          /\ pingsBefore' = videoQualityHelper.healthy
          /\ slowLinkSeen' = slowLink
          /\ errorAt' = IF healthy THEN << >> ELSE << feed.currentSubstream >>
          /\ proposed' = Proposals(feed, videoQualityHelper, slowLink)
          /\ requestSubstream' = sent
          /\ videoQualityHelper' = HelperAfterMonitor(feed, videoQualityHelper, slowLink)
          /\ streak' = IF ~healthy THEN 0
                       ELSE IF streakLayer = feed.currentSubstream /\ streak <= HealthyPings
                            THEN streak + 1
                            ELSE IF streakLayer = feed.currentSubstream THEN streak ELSE 1
          /\ streakLayer' = feed.currentSubstream
          /\ sentSince' = (IF reqChanged THEN << >> ELSE sentSince) \o sent

\* ngOnChanges (lines 485-501) with a new remoteFeed: the monitor runs, with
\* slowLink false. The first of them binds the input.
BoxNgOnChanges ==
  /\ boxPhase \in {"constructed", "running"}
  /\ remoteFeed # storeFeed
  /\ remoteFeed' = storeFeed
  /\ boxPhase' = IF boxPhase = "constructed" THEN "bound" ELSE boxPhase
  /\ monitorVideoQuality(remoteFeed', FALSE,
                         remoteFeed'.requestedSubstream # remoteFeed.requestedSubstream)
  /\ storeFeed' = StoreFeedAfter(storeFeed, requestSubstream')
  /\ UNCHANGED tick
  /\ UNCHANGED roomVars

\* ngOnInit (lines 474-478): setupSubscriptions starts the 1-second interval.
BoxNgOnInit ==
  /\ boxPhase = "bound"
  /\ boxPhase' = "running"
  /\ BoxQuiet
  /\ UNCHANGED << remoteFeed, videoQualityHelper, tick, storeFeed, streak, streakLayer, sentSince >>
  /\ UNCHANGED roomVars

\* The period of interval(1000) (line 512) is over: the timer task of the
\* tick is queued and runs when the event loop comes to it.
TimerElapses ==
  /\ boxPhase = "running"
  /\ tick = "idle"
  /\ tick' = "due"
  /\ BoxQuiet
  /\ UNCHANGED << remoteFeed, videoQualityHelper, boxPhase, storeFeed, streak, streakLayer, sentSince >>
  /\ UNCHANGED roomVars

\* The tick writes the substream it requests into the feed it was given.
IntervalTickAppliesSwitch ==
  /\ boxPhase = "running"
  /\ tick = "due"
  /\ tick' = "idle"
  /\ remoteFeed = storeFeed
  /\ monitorVideoQuality(remoteFeed, FALSE, FALSE)
  /\ storeFeed' = StoreFeedAfter(storeFeed, requestSubstream')
  /\ remoteFeed' = StoreFeedAfter(remoteFeed, requestSubstream')
  /\ UNCHANGED boxPhase
  /\ UNCHANGED roomVars

\* A tick of interval(1000) (lines 512-516). Change detection hands a changed
\* feed to the box before the next timer task runs.
IntervalTick ==
  /\ boxPhase = "running"
  /\ tick = "due"
  /\ tick' = "idle"
  /\ remoteFeed = storeFeed
  /\ monitorVideoQuality(remoteFeed, FALSE, FALSE)
  /\ storeFeed' = StoreFeedAfter(storeFeed, requestSubstream')
  /\ UNCHANGED << remoteFeed, boxPhase >>
  /\ UNCHANGED roomVars

\* The tick that was due at the destroy runs the monitor all the same.
DueTickRuns ==
  /\ boxPhase = "destroyed"
  /\ tick = "due"
  /\ tick' = "cancelled"
  /\ monitorVideoQuality(remoteFeed, FALSE, FALSE)
  /\ storeFeed' = StoreFeedAfter(storeFeed, requestSubstream')
  /\ UNCHANGED << remoteFeed, boxPhase >>
  /\ UNCHANGED roomVars

\* The tick that was due when ngOnDestroy ran (lines 503-517): takeUntil has
\* unsubscribed from the interval at destroy$.next(), which clears the timer,
\* so the subscriber of lines 515-516 is not called for it.
DueTickDropped ==
  /\ boxPhase = "destroyed"
  /\ tick = "due"
  /\ tick' = "cancelled"
  /\ BoxQuiet
  /\ UNCHANGED << remoteFeed, videoQualityHelper, boxPhase, storeFeed, streak, streakLayer, sentSince >>
  /\ UNCHANGED roomVars

\* monitorVideoQuality(true): the slow-link path of the method. ngOnChanges
\* passes false in this release (lines 488-497); the method is public.
SlowLinkEvaluation ==
  /\ boxPhase \in {"constructed", "running"}
  /\ remoteFeed = NoFeed \/ remoteFeed = storeFeed
  /\ monitorVideoQuality(remoteFeed, TRUE, FALSE)
  /\ storeFeed' = StoreFeedAfter(storeFeed, requestSubstream')
  /\ UNCHANGED << remoteFeed, boxPhase, tick >>
  /\ UNCHANGED roomVars

\* ngOnDestroy (lines 503-509): destroy$.next() ends the interval.
BoxNgOnDestroy ==
  /\ boxPhase = "running"
  /\ boxPhase' = "destroyed"
  /\ BoxQuiet
  /\ UNCHANGED << remoteFeed, videoQualityHelper, tick, storeFeed, streak, streakLayer, sentSince >>
  /\ UNCHANGED roomVars

\* The feed of a box changes after the box has handled the last change, or
\* after the box was destroyed.
FeedMayChange ==
  \/ boxPhase = "running" /\ remoteFeed = storeFeed
  \/ boxPhase = "destroyed"

\* The media server moves the feed to another substream.
SubstreamChanges ==
  /\ FeedMayChange
  /\ \E layer \in Layers :
       /\ layer # storeFeed.currentSubstream
       /\ storeFeed' = [storeFeed EXCEPT !.currentSubstream = layer]
  /\ BoxQuiet
  /\ UNCHANGED << remoteFeed, videoQualityHelper, boxPhase, tick, streak, streakLayer, sentSince >>
  /\ UNCHANGED roomVars

\* The feed's video tracks come or go.
TracksChange ==
  /\ FeedMayChange
  /\ storeFeed' = [storeFeed EXCEPT !.numVideoTracks = 1 - storeFeed.numVideoTracks]
  /\ BoxQuiet
  /\ UNCHANGED << remoteFeed, videoQualityHelper, boxPhase, tick, streak, streakLayer, sentSince >>
  /\ UNCHANGED roomVars

NextBox ==
  \/ BoxNgOnChanges
  \/ BoxNgOnInit
  \/ TimerElapses
  \/ IntervalTick
  \/ DueTickDropped
  \/ SlowLinkEvaluation
  \/ BoxNgOnDestroy
  \/ SubstreamChanges
  \/ TracksChange

Next == NextRoom

\* The room session: JanusVideoroomComponent and the store.
Spec == Init /\ [][Next]_vars

\* One video box and its feed.
SpecMonitor == InitMonitor /\ [][NextBox]_vars


\* ------------------------------------------------------------ properties

\* The commands of a given operation among those a step sent.
Sent(op) == { i \in 1..Len(issued') : issued'[i].op = op }

\* The store reports a failed attach and the subscriber is handed it.
AttachFailureDelivered ==
  /\ roomInfo.state = "attaching"
  /\ roomInfo'.state = "attach_failed"
  /\ delivered'

\* A retry timer of the current configuration fires.
FreshTimerFires == timers' < timers /\ staleTimers' = staleTimers

\* C1: when an attach against the primary URL fails and a fallback URL exists
\* that differs from the URL just tried, the step schedules one retry against
\* the fallback and sends no attach itself; no second retry is scheduled for
\* the same configuration, whatever is emitted in between; and the timer,
\* when it fires, sends the attach with the fallback URL.
C1_AttachRetryOnce ==
  [][ /\ ( /\ AttachFailureDelivered
           /\ attachUrl' = PrimaryUrl(wsUrl, httpUrl)
           /\ httpUrl # NoUrl
           /\ httpUrl # attachUrl' )
         => ( /\ scheduled' = 1
              /\ janusServerUrl' = httpUrl
              /\ Sent("attach") = {}
              /\ errs' = << >> )
      /\ retries' <= 1
      /\ FreshTimerFires => issued' = << AttachCmd(httpUrl) >>
    ]_vars

\* The retry has been sent to the fallback after the primary URL failed.
C1_Witness ==
  /\ wsUrl # NoUrl /\ httpUrl # NoUrl /\ wsUrl # httpUrl
  /\ roomInfo.state = "attach_failed"
  /\ retries = 1
  /\ timers = 0 /\ staleTimers = 0
  /\ issued = << AttachCmd(httpUrl) >>


\* The attach that failed last was made against the fallback URL, which
\* covers a primary URL equal to the fallback, and the subscriber has seen it.
FallbackFailed ==
  /\ roomInfo.state = "attach_failed"
  /\ attachUrl = httpUrl
  /\ lastSeen = "attach_failed"

\* C2: when the attach against the fallback URL fails, or the attach fails
\* and the primary URL equals the fallback, the step emits one fatal error
\* with the sentinel code 9999, schedules no retry and sends no attach; from
\* then on no attach is sent and no retry scheduled or pending until a reset.
C2_AttachExhausted ==
  [][ /\ (AttachFailureDelivered /\ attachUrl' = httpUrl)
         => ( /\ errs' = << SentinelCode >>
              /\ scheduled' = 0
              /\ Sent("attach") = {} )
      /\ (FallbackFailed /\ Sent("reset") = {})
         => ( /\ Sent("attach") = {}
              /\ scheduled' = 0
              /\ timers' = 0 )
    ]_vars

\* The fallback URL, distinct from the primary, has failed as well and the
\* sentinel error has been emitted for it.
C2_Witness ==
  /\ wsUrl # NoUrl /\ httpUrl # NoUrl /\ wsUrl # httpUrl
  /\ roomInfo.state = "attach_failed"
  /\ attachUrl = httpUrl
  /\ delivered
  /\ retries = 1
  /\ errs = << SentinelCode >>


\* The fatal error events a step emitted.
Emitted == { errs'[i] : i \in 1..Len(errs') }

\* C3: the operation a state drives (attach, register, failure handling) is
\* performed once per distinct state: an emission that repeats the state the
\* subscriber handled last sends no attach and no register, schedules no
\* retry and emits no sentinel error.
C3_OncePerDistinctState ==
  [][ (delivered' /\ roomInfo'.state = lastSeen)
      => ( /\ Sent("attach") = {}
           /\ Sent("register") = {}
           /\ scheduled' = 0
           /\ SentinelCode \notin Emitted )
    ]_vars


\* The fatal error events of a step that carry a code of the server.
ServerErrors == SelectSeq(errs', LAMBDA code : code # SentinelCode)

\* C4: a fatal error event with the server's code is emitted once per
\* transition of publishState into error: the emission that enters error
\* emits one, and an emission that finds publishState still in error emits
\* none. (An emission whose message lookup fails emits nothing and is left
\* to the claim about unmapped codes.)
C4_FatalErrorOncePerTransition ==
  [][ (delivered' /\ ~threw')
      => Len(ServerErrors) =
           (IF roomInfo'.publishState = "error" /\ lastPublish # "error" THEN 1 ELSE 0)
    ]_vars


\* C5 as stated: a mute command is sent when the desired flag differs from
\* the room's while publishState is publishing, and in no other publishState,
\* the commands caused by setting the desired flag included.
C5_MuteOnlyWhilePublishing ==
  [][ /\ ( /\ delivered'
           /\ roomInfo'.publishState = "publishing"
           /\ roomInfo'.muted # muted )
         => Sent("setMute") # {}
      /\ Sent("setMute") # {} => roomInfo'.publishState = "publishing"
    ]_vars

\* C5, amended: on an emission the subscriber sends a mute command, with the
\* desired flag, exactly when the desired flag differs from the room's while
\* publishState is publishing, and sends none in another publishState; the
\* only other mute command is the one the isMuted setter sends, at once and
\* in whatever publishState, with the flag it was given.
C5_MuteReconciliation ==
  [][ /\ delivered'
         => ( /\ Sent("setMute") # {}
                   <=> ( /\ roomInfo'.publishState = "publishing"
                         /\ roomInfo'.muted # muted )
              /\ Cardinality(Sent("setMute")) <= 1
              /\ \A i \in Sent("setMute") : issued'[i] = SetMuteCmd(muted) )
      /\ (~delivered' /\ Sent("setMute") # {})
         => ( /\ muted' # muted
              /\ issued' = << SetMuteCmd(muted') >> )
    ]_vars

\* The room starts publishing with a mute flag that is not the desired one,
\* and the subscriber has sent the desired flag.
C5_Witness ==
  /\ delivered
  /\ roomInfo.publishState = "publishing"
  /\ roomInfo.muted # muted
  /\ issued = << SetMuteCmd(muted) >>


\* The position of feed `id` in the snapshot of the registry.
SnapshotIndex(id) ==
  CHOOSE k \in 1..Len(remoteFeedsArray(remoteFeeds)) :
    remoteFeedsArray(remoteFeeds)[k].id = id

\* C6: the publisher list emitted on a state emission is the subsequence of
\* the registry's snapshot made of the feeds whose state is ready: every
\* entry is a ready feed of the registry, every ready feed of the registry is
\* an entry, and the entries keep the order of the snapshot, none twice.
C6_PublisherList ==
  \A n \in 1..Len(pubsOut) :
    LET p == pubsOut[n]
    IN /\ \A i \in 1..Len(p) :
            /\ p[i].id \in DOMAIN remoteFeeds
            /\ remoteFeeds[p[i].id] = "ready"
            /\ p[i].state = "ready"
       /\ \A id \in DOMAIN remoteFeeds :
            remoteFeeds[id] = "ready" => \E i \in 1..Len(p) : p[i].id = id
       /\ \A i, j \in 1..Len(p) :
            i < j => SnapshotIndex(p[i].id) < SnapshotIndex(p[j].id)

\* A list of one publisher has been emitted from a registry whose snapshot
\* holds a feed that is not ready before the one that is.
C6_Witness ==
  /\ delivered
  /\ DOMAIN remoteFeeds = {1, 2}
  /\ remoteFeeds[1] = "pending"
  /\ pubsOut = << << [id |-> 2, state |-> "ready"] >> >>


\* The evaluation that just ran took the unhealthy branch.
UnhealthyEvaluation ==
  evaluated /\ (remoteFeed.numVideoTracks = 0 \/ slowLinkSeen)

C8_UpgradeHysteresis ==
  evaluated
  => LET k == remoteFeed.currentSubstream
     IN /\ \A i \in 1..Len(proposed) : proposed[i] \in 0..(MaxSubstreams - 1)
        /\ (\E i \in 1..Len(proposed) : proposed[i] > k)
           => ( /\ ~UnhealthyEvaluation
                /\ streak >= HealthyPings
                /\ proposed = << k + 1 >> )
        /\ (streak = HealthyPings /\ k < MaxSubstreams - 1)
           => proposed = << k + 1 >>

\* The third healthy evaluation in a row at substream 0 requested substream 1.
C8_Witness ==
  /\ evaluated
  /\ remoteFeed.currentSubstream = 0
  /\ streak = 3
  /\ pingsBefore = 2
  /\ proposed = << 1 >>
  /\ requestSubstream = << 1 >>

\* C9: a proposal equal to the feed's requested substream is not emitted, and
\* between two changes of the feed's requested substream no target is
\* requested twice.
C9_NoDuplicateRequests ==
  /\ evaluated
     => \A i \in 1..Len(requestSubstream) :
          requestSubstream[i] # remoteFeed.requestedSubstream
  /\ \A i, j \in 1..Len(sentSince) : i # j => sentSince[i] # sentSince[j]

\* An evaluation proposed the substream the feed had requested already and
\* emitted nothing.
C9_Witness ==
  /\ evaluated
  /\ proposed = << remoteFeed.requestedSubstream >>
  /\ remoteFeed.requestedSubstream # remoteFeed.currentSubstream
  /\ requestSubstream = << >>

\* The configuration keys that identify the session.
SessionKeys ==
  { "roomId", "wsUrl", "httpUrl", "iceServers", "pin", "role", "userName",
    "userId", "component" }

\* C10: a change of a session key after its first value sends reset, with the
\* ice servers now configured, and a change of no such key, or a first
\* change, sends none; the reset, from whatever state the session is in,
\* leaves the room uninitialized, with no error and the derived mute flag
\* discarded, and the registry of remote feeds empty.
C10_ResetClearsState ==
  [][ /\ (changed' \cap SessionKeys # {} /\ phase # "constructed")
         => issued' = << ResetCmd(iceServers') >>
      /\ (changed' # {} /\ (changed' \cap SessionKeys = {} \/ phase = "constructed"))
         => Sent("reset") = {}
      /\ NextCmd("reset")
         => ( /\ roomInfo' = [state |-> "uninitialized", publishState |-> "idle",
                              muted |-> FALSE, errorCode |-> 0]
              /\ remoteFeeds' = << >> )
    ]_vars

\* The session was reset while a retry timer was pending, and the subscriber
\* has been handed the cleared state; the desired mute flag is still set.
C10_Witness ==
  /\ phase = "running"
  /\ delivered
  /\ lastSeen = "uninitialized"
  /\ roomInfo.state = "uninitialized"
  /\ ~roomInfo.muted
  /\ muted
  /\ remoteFeeds = << >>
  /\ staleTimers = 1


\* C11: a retry timer that is pending when the session is torn down (reset or
\* destroy) is cancelled: when its delay elapses after the teardown no attach
\* command is sent, nothing is emitted and nothing else changes.
C11_RetryTimerCancelled ==
  [][ staleTimers' < staleTimers
      => ( /\ issued' = << >>
           /\ errs' = << >>
           /\ UNCHANGED << roomInfo, remoteFeeds, janusServerUrl >> )
    ]_vars

\* C12: an emission with publishState error is handled without a throw,
\* whether the table maps the code or not: the fatal error event carries the
\* room's error code and the publisher list is emitted.
C12_UnmappedCodeSurfaces ==
  (delivered /\ roomInfo.publishState = "error")
  => ( /\ ~threw
       /\ errs = << roomInfo.errorCode >>
       /\ Len(pubsOut) = 1 )

\* C13: after a reset caused by a configuration change initialize is invoked
\* again. Commands are taken as they are sent, so once the component has run
\* setupJanusRoom and nothing is left to take, the room is not uninitialized.
C13_ReinitializedAfterReset ==
  (phase = "running" /\ ~destroyed /\ cmds = << >>)
  => roomInfo.state # "uninitialized"


\* C14: the sentinel error 9999 is emitted only when the attach against the
\* fallback URL has failed: the room is in attach_failed after an attach
\* against httpUrl and no retry is scheduled and still to be tried; it is
\* never emitted for a room in publishState error.
C14_SentinelExclusive ==
  [][ (SentinelCode \in Emitted)
      => ( /\ roomInfo'.state = "attach_failed"
           /\ roomInfo'.publishState # "error"
           /\ attachUrl' = httpUrl
           /\ timers' = 0 )
    ]_vars


\* C16: once a signaling rejection has put publishState into error, no
\* register and no attach command is sent and no retry is scheduled or
\* pending, whatever is emitted, until a reset.
C16_RejectionNotRetried ==
  [][ (roomInfo.publishState = "error" /\ Sent("reset") = {})
      => ( /\ Sent("register") = {}
           /\ Sent("attach") = {}
           /\ scheduled' = 0
           /\ timers' = 0 )
    ]_vars

\* The room is in error after a rejected registration and the subscriber has
\* handled a further emission, caused by a remote feed, without a command.
C16_Witness ==
  /\ roomInfo.publishState = "error"
  /\ lastPublish = "error"
  /\ delivered
  /\ remoteFeeds # << >>
  /\ errs = << MappedCode >>
  /\ issued = << >>


\* The callback of a retry timer runs in this step.
TimerCallbackRuns == timers' < timers \/ staleTimers' < staleTimers

\* C19: register is sent only while handling an emission whose state is
\* attached; attach is sent only while handling an emission whose state is
\* initialized, or by the delayed retry scheduled from attach_failed; and
\* neither is sent while the room is uninitialized, attaching, registered,
\* publishing or in error.
C19_ProtocolOrdering ==
  [][ /\ Sent("register") # {}
         => (delivered' /\ roomInfo'.state = "attached")
      /\ Sent("attach") # {}
         => \/ delivered' /\ roomInfo'.state = "initialized"
            \/ TimerCallbackRuns
      /\ (Sent("register") # {} \/ Sent("attach") # {})
         => roomInfo'.state \in {"initialized", "attached", "attach_failed"}
    ]_vars

\* C20: a component destroyed while ngOnInit awaits the devices and the media
\* permission sends no command and handles no emission when the wait is over;
\* and in every run no command is sent after the destroy.
C20_NothingAfterDestroy ==
  [][ destroyed => (issued' = << >> /\ ~delivered') ]_vars


\* C15: once the box is destroyed its monitor is not run again: no step
\* evaluates the feed, tells the scorer anything or emits a substream
\* request, the step of a tick that was due at the destroy included.
C15_MonitorStopsAtDestroy ==
  [][ (boxPhase = "destroyed")
      => ( /\ ~evaluated'
           /\ requestSubstream' = << >>
           /\ UNCHANGED << videoQualityHelper, remoteFeed >> ) ]_vars

\* The tick due at the destroy was dropped, for a feed without video tracks
\* above the lowest layer, which an evaluation would have moved down.
C15_Witness ==
  /\ boxPhase = "destroyed"
  /\ tick = "cancelled"
  /\ remoteFeed # NoFeed
  /\ remoteFeed.numVideoTracks = 0
  /\ remoteFeed.currentSubstream > 0
  /\ remoteFeed.requestedSubstream # remoteFeed.currentSubstream - 1
  /\ ~evaluated


\* C17: an evaluation emits at most one substream request; the layer it
\* requests is k - 1 when the evaluation found the feed unhealthy and a layer
\* above k when it found it healthy, k being the feed's current substream,
\* and so never k itself.
C17_OneRequestPerEvaluation ==
  evaluated
  => LET k == remoteFeed.currentSubstream
     IN /\ Len(requestSubstream) <= 1
        /\ \A i \in 1..Len(requestSubstream) :
              /\ requestSubstream[i] # k
              /\ UnhealthyEvaluation => requestSubstream[i] = k - 1
              /\ ~UnhealthyEvaluation => requestSubstream[i] > k

\* A healthy evaluation of a feed at the middle layer has requested the
\* layer above, and nothing else.
C17_Witness ==
  /\ evaluated
  /\ ~UnhealthyEvaluation
  /\ remoteFeed.currentSubstream = 1
  /\ requestSubstream = << 2 >>


\* C18: an evaluation writes nothing into the feed: the feed the box holds
\* after it is the feed it held or the one the store handed it, and the
\* store's feed keeps its current substream. The requested substream of the
\* store's feed changes only in a step that emits a request, to the layer
\* requested; its current substream changes only in a step of the media
\* collaborator, in which the monitor does not run.
C18_MonitorFrame ==
  [][ /\ evaluated'
         => ( /\ remoteFeed' \in {remoteFeed, storeFeed}
              /\ storeFeed'.currentSubstream = storeFeed.currentSubstream )
      /\ (storeFeed'.requestedSubstream # storeFeed.requestedSubstream)
         => ( /\ requestSubstream' # << >>
              /\ storeFeed'.requestedSubstream = requestSubstream'[Len(requestSubstream')] )
      /\ (storeFeed'.currentSubstream # storeFeed.currentSubstream)
         => ( /\ ~evaluated'
              /\ requestSubstream' = << >>
              /\ UNCHANGED << remoteFeed, videoQualityHelper >> )
    ]_vars

\* A tick has requested another layer: the store has recorded the request
\* and the feed the box holds is as it was handed to the box.
C18_Witness ==
  /\ evaluated
  /\ boxPhase = "running"
  /\ tick = "idle"
  /\ requestSubstream # << >>
  /\ storeFeed.requestedSubstream = requestSubstream[1]
  /\ remoteFeed.requestedSubstream # requestSubstream[1]
  /\ remoteFeed.currentSubstream = storeFeed.currentSubstream
  /\ streak > 0

====
